---- MODULE Spec2Model ----
(***************************************************************************)
(* Canada Home Affordability Calculator (src/app.py, src/app2.py).         *)
(*                                                                         *)
(* The two scripts are Streamlit pages: every widget interaction reruns    *)
(* the script top to bottom.  The model has the widgets' values as state,  *)
(* one action per interaction (a rerun of the script), and the regional    *)
(* comparison loop one iteration at a time.                                *)
(*                                                                         *)
(* Numbers.  The scripts compute in IEEE doubles.  The model computes in   *)
(* fixed point: a real v is the integer nearest to v * ONE, and money is  *)
(* held in cents.  TLC's integers are 32 bits wide, so products           *)
(* go through MulDiv, which never forms a * b.  Python's float division    *)
(* raises ZeroDivisionError on a zero divisor; the model carries that      *)
(* outcome explicitly.                                                     *)
(***************************************************************************)
EXTENDS Integers, Sequences, FiniteSets, TLC

\* ------------------------------------------------------------ fixed point

\* The fixed-point unit: the real 1.0.
ONE == 10 ^ 7

\* Cents in a dollar: money is held in cents.
CENTS == 10 * 10

Abs(a) == IF a < 0 THEN -a ELSE a

Sgn(a) == IF a < 0 THEN -1 ELSE IF a > 0 THEN 1 ELSE 0

\* The source evaluates an argument before the call it is passed to.  Then(v, e)
\* is e with v evaluated first, which keeps TLC's evaluation from nesting a
\* whole computation inside its last use.
Then(v, e) == IF v = v THEN e ELSE e

\* <<q, r>> with a * b = q * c + r and 0 <= r < c, for a, b >= 0 and c > 0,
\* one hexadecimal digit of a at a time: no intermediate exceeds 16c + 15b.
RECURSIVE MulDivNat(_, _, _)
MulDivNat(a, b, c) ==
    IF a = 0 THEN <<0, 0>>
    ELSE LET h == MulDivNat(a \div 16, b, c)
             t == 16 * h[2] + (a % 16) * b
         IN  <<16 * h[1] + (t \div c), t % c>>

\* a * b / c rounded to the nearest integer, ties to even, as IEEE arithmetic
\* rounds (c # 0).
RoundQuotient(qr, c) ==
    IF (2 * qr[2] > c) \/ (2 * qr[2] = c /\ qr[1] % 2 = 1)
    THEN qr[1] + 1 ELSE qr[1]

MulDiv(a, b, c) ==
    Then(<<a, b, c>>,
         Sgn(a) * Sgn(b) * Sgn(c)
             * RoundQuotient(MulDivNat(Abs(a), Abs(b), Abs(c)), Abs(c)))

\* The product and the quotient of two fixed-point reals.
FMul(a, b) == MulDiv(a, b, ONE)

FDiv(a, b) == MulDiv(a, ONE, b)

\* acc * b ** n for fixed-point acc, b > 0 and an integer n >= 0, by squaring.
RECURSIVE FPowNat(_, _, _)
FPowNat(acc, b, n) ==
    Then(<<acc, b>>,
         IF n = 0 THEN acc
         ELSE FPowNat(IF n % 2 = 1 THEN FMul(acc, b) ELSE acc, FMul(b, b),
                      n \div 2))

\* b ** n for a fixed-point b > 0 and an integer n.
FPow(b, n) ==
    IF n >= 0 THEN FPowNat(ONE, b, n) ELSE FDiv(ONE, FPowNat(ONE, b, -n))

\* ----------------------------------------------------------------- numpy

\* ln 2, sqrt(2) and sqrt(2 / pi) in fixed point.
LN2 == 6931472

SQRT_2 == 14142136

SQRT_2_OVER_PI == 7978846

\* The largest k with 2^k <= n (n >= 1).
RECURSIVE FloorLog2(_)
FloorLog2(n) == IF n < 2 THEN 0 ELSE 1 + FloorLog2(n \div 2)

\* y + y^3/3 + y^5/5 + ... : `pw` is y^k, the terms from k on, until they vanish.
RECURSIVE AtanhSeries(_, _, _)
AtanhSeries(y, pw, k) ==
    IF pw = 0 THEN 0
    ELSE (pw \div k) + AtanhSeries(y, FMul(FMul(pw, y), y), k + 2)

\* np.log of a positive integer n, in fixed point:
\* n = 2^k * m with 1 <= m < 2, ln m = 2 atanh((m - 1) / (m + 1)).
LogOfMantissa(m) == 2 * AtanhSeries(FDiv(m - ONE, m + ONE), FDiv(m - ONE, m + ONE), 1)

LogByExponent(n, k) == k * LN2 + LogOfMantissa(MulDiv(n, ONE, 2 ^ k))

np_log(n) == LogByExponent(n, FloorLog2(n))

\* 1 - f + f^2/2! - ... : `term` is (-f)^k / k!, the terms from k on.
RECURSIVE ExpSeries(_, _, _)
ExpSeries(f, term, k) ==
    IF term = 0 THEN 0
    ELSE term + ExpSeries(f, MulDiv(FMul(term, -f), 1, k + 1), k + 1)

\* np.exp of a fixed-point v <= 0: v = -(k ln 2 + f), exp(v) = exp(-f) / 2^k.
np_exp(v) ==
    LET t == -v
        k == t \div LN2
        f == t % LN2
    IN  IF k > 30 THEN 0 ELSE ExpSeries(f, ONE, 0) \div (2 ^ k)

\* np.tanh of a fixed-point u: (1 - e^-2|u|) / (1 + e^-2|u|), signed.
TanhFromExp(u, e) == Sgn(u) * FDiv(ONE - e, ONE + e)

np_tanh(u) == TanhFromExp(u, np_exp(-2 * Abs(u)))

\* --------------------------------------------------- income distribution

\* sigma = 0.95, and scale = np.exp(10.45) = 34544.37 dollars, in cents.
sigma == 9500000

scale == 3454437

\* lognorm_cdf(x, s, scale): x and scale in cents, s and the result in fixed
\* point.  The result is what the source's formula gives, which is not the
\* normal distribution's Phi(z).
CdfOfZ(z) ==
    Then(z, FMul(ONE \div 2,
                 ONE + np_tanh(MulDiv(SQRT_2, z, 2 * ONE))
                     + FMul(SQRT_2_OVER_PI, np_exp(-MulDiv(z, z, 2 * ONE)))))

lognorm_cdf(x, s, sc) == CdfOfZ(FDiv(np_log(x) - np_log(sc), s))

\* ---------------------------------------------------- mortgage calculator

\* The 28% housing ratio and the default amortization, in years.
HOUSING_RATIO == 2800000

DEFAULT_AMORTIZATION == 25

\* A slip of sign in the loan: the down payment added, not deducted.
LoanOf_DownPaymentAdded(price, down_payment) == price + down_payment

\* loan = price - down_payment.
LoanOf(price, down_payment) == price - down_payment

\* calculate_max_affordable(price, down_payment_pct, mortgage_rate, amortization):
\* price in cents, the fraction and the rate in fixed point, amortization in
\* years.  The outcome is the value returned (annual_income_needed and, in
\* app2.py, down_payment, in cents) or the exception raised.
calculate_max_affordable(price, down_payment_pct, mortgage_rate, amortization) ==
    LET down_payment == FMul(price, down_payment_pct)
        loan         == LoanOf(price, down_payment)
        monthly_rate == MulDiv(mortgage_rate, 1, 12)
        n_payments   == amortization * 12
        growth       == FPow(ONE + monthly_rate, n_payments)
        numerator    == FMul(monthly_rate, growth)
        denominator  == growth - ONE
    IN  IF denominator = 0
        THEN [status |-> "ZeroDivisionError", annual_income_needed |-> 0,
              down_payment |-> down_payment]
        ELSE LET monthly_payment == MulDiv(loan, numerator, denominator)
             IN  [status |-> "ok",
                  annual_income_needed |->
                      MulDiv(monthly_payment * 12, ONE, HOUSING_RATIO),
                  down_payment |-> down_payment]

\* ------------------------------------------------------------- formatting

\* f"{v:,.0f}" of an amount held in hundredths: the nearest whole number.
fmt_0f(v) == MulDiv(v, 1, CENTS)

\* f"{prob*100:.1f}%" of a fixed-point fraction: tenths of a percent.
fmt_pct_1f(prob) == MulDiv(prob, 1000, ONE)

\* ---------------------------------------------------------- region tables

Rule(name, down_payment, rate, first_time, pop, incentive) ==
    [name |-> name, down_payment |-> down_payment, rate |-> rate,
     first_time |-> first_time, pop |-> pop, incentive |-> incentive]

\* REGIONS of app.py, in insertion order.
REGIONS_app ==
    << Rule("Ontario",  500000, 450000, 500000, 15000000,  9500000),
       Rule("BC",       500000, 480000, 500000,  5300000,  9000000),
       Rule("Alberta",  500000, 420000, 500000,  4500000, 10000000),
       Rule("Quebec",   500000, 430000, 300000,  9000000, 10000000),
       Rule("National", 500000, 450000, 500000, 20000000,  9500000) >>

\* REGIONS of app2.py, in insertion order.
REGIONS_app2 ==
    << Rule("National", 500000, 450000, 500000, 20000000,  9500000),
       Rule("Ontario",  500000, 470000, 500000, 15000000,  9300000),
       Rule("BC",       500000, 490000, 500000,  5300000,  9000000),
       Rule("Alberta",  500000, 430000, 500000,  4500000, 10000000),
       Rule("Quebec",   500000, 440000, 300000,  9000000, 10000000),
       Rule("Manitoba", 500000, 420000, 500000,  1400000, 10000000) >>

Apps == {"app", "app2"}

RegionsOf(a) == IF a = "app" THEN REGIONS_app ELSE REGIONS_app2

\* st.number_input's minimum, maximum, default and step, in dollars.
PriceMin(a) == 100000

PriceMax(a) == IF a = "app" THEN 2000000 ELSE 3000000

PriceDefault(a) == 800000

PriceStep(a) == IF a = "app" THEN 50000 ELSE 25000

\* st.checkbox's default.
FirstTimeDefault(a) == a = "app2"

\* ------------------------------------------------------------------ bounds

\* Purchase prices tried: the widget's minimum plus 0..MaxPriceSteps steps,
\* its default and its maximum.
MaxPriceSteps == 3

\* Incomes at which the distribution is evaluated: 1..MaxIncomeSteps steps of
\* 25,000 dollars, and scale itself.
MaxIncomeSteps == 12

Prices(a) ==
    {PriceMin(a) + k * PriceStep(a) : k \in 0..MaxPriceSteps}
        \cup {PriceDefault(a), PriceMax(a)}

Incomes == {k * 25000 * CENTS : k \in 1..MaxIncomeSteps} \cup {scale}

\* The inputs of the checks of calculate_max_affordable on its own: prices in
\* dollars, down-payment fractions (0, 3%, 5%, 100%, 150%), annual rates (0,
\* 4.5%, 4.9%), amortizations in years.
CalcPrices ==
    {PriceMin("app") + k * PriceStep("app") : k \in 0..MaxPriceSteps}

Fractions == {0, 300000, 500000, ONE, 15000000}

Rates == {0, 450000, 490000}

Amortizations == {-25, 0, 25, 30}

\* ------------------------------------------------------------ region edits

\* The table with the rate of its k-th region set to 0: an edit of the REGIONS
\* dict ("Update rates here") that makes that region's computation raise.
ZeroRate(table, k) == [table EXCEPT ![k].rate = 0]

EditedTables(a) ==
    {RegionsOf(a)} \cup {ZeroRate(RegionsOf(a), k) : k \in 1..Len(RegionsOf(a))}

\* ------------------------------------------------------------ memoization

\* Both functions are pure, and app2.py caches calculate_max_affordable by its
\* arguments (@st.cache_data).  The model evaluates each function once for
\* every argument tuple it can be called with, into a set of <<arguments,
\* outcome>> pairs, and the actions look the outcome up.
RuleCalcArgs(a, data) ==
    { <<p * CENTS, d, r, DEFAULT_AMORTIZATION>> :
          p \in Prices(a), d \in {data.first_time, data.down_payment},
          r \in {data.rate, 0} }

UiCalcArgs ==
    UNION { UNION { RuleCalcArgs(a, RegionsOf(a)[k]) : k \in 1..Len(RegionsOf(a)) }
            : a \in Apps }

PureCalcArgs ==
    { <<p * CENTS, d, r, n>> :
          p \in CalcPrices, d \in Fractions, r \in Rates, n \in Amortizations }

calc_cache ==
    { <<args, calculate_max_affordable(args[1], args[2], args[3], args[4])>> :
          args \in UiCalcArgs \cup PureCalcArgs }

cached_calculate_max_affordable(price, down_payment_pct, mortgage_rate, amortization) ==
    (CHOOSE e \in calc_cache :
         e[1] = <<price, down_payment_pct, mortgage_rate, amortization>>)[2]

CdfArgs ==
    Incomes \cup { e[2].annual_income_needed :
                       e \in {u \in calc_cache :
                                  u[1] \in UiCalcArgs /\ u[2].status = "ok"} }

cdf_cache == { <<x, lognorm_cdf(x, sigma, scale)>> : x \in CdfArgs }

cached_lognorm_cdf(x) == (CHOOSE e \in cdf_cache : e[1] = x)[2]

\* ------------------------------------------------------------------- state

VARIABLES
    app,               \* which script runs: "app" (app.py) or "app2" (app2.py)
    REGIONS,           \* the script's region table
    home_price,        \* st.number_input: purchase price, dollars
    region,            \* st.selectbox: position of the chosen key in REGIONS
    first_time_buyer,  \* st.checkbox
    button,            \* st.button: TRUE in the run a click started
    pc,                \* "loop": in the comparison loop; "done": the run ended;
                       \* "error": the run was aborted by an exception
    exception,         \* the exception that aborted the run, or "none"
    result,            \* the single-region results of the run
    idx,               \* the comparison loop's position in REGIONS.items()
    comparison,        \* comparison_data / comparison: the rows built so far
    df,                \* the table st.dataframe showed in this run (<<>>: none)
    call,              \* the pure function's call under test and its outcome
    prev               \* the call before it

vars == <<app, REGIONS, home_price, region, first_time_buyer, button, pc,
          exception, result, idx, comparison, df, call, prev>>

ui_vars == <<app, REGIONS, home_price, region, first_time_buyer, button, pc,
             exception, result, idx, comparison, df>>

NoCall == [fn |-> "none"]

NoResult ==
    [shown |-> FALSE, max_income_needed |-> 0, down_payment |-> 0,
     prob_affordable |-> 0, people_affordable |-> 0]

\* -------------------------------------------------------- the script's run

\* Lines 74-76 of app.py, 65-67 of app2.py: the share and the count of the
\* population above the income needed (the count in hundredths).
PopulationAbove(c, data, prob_affordable) ==
    [shown |-> TRUE,
     max_income_needed |-> c.annual_income_needed,
     down_payment |-> c.down_payment,
     prob_affordable |-> prob_affordable,
     people_affordable |-> MulDiv(data.pop * CENTS, prob_affordable, ONE)]

SingleOutcome(c, data) ==
    IF c.status # "ok"
    THEN [status |-> c.status, result |-> NoResult]
    ELSE [status |-> "ok",
          result |-> PopulationAbove(
                         c, data,
                         ONE - cached_lognorm_cdf(c.annual_income_needed))]

\* The down-payment fraction of the single-region result, by the flag.
SingleFraction(data, first_time) ==
    IF first_time THEN data.first_time ELSE data.down_payment

\* Lines 62-76 of app.py, 59-67 of app2.py: the single-region results.
SingleRegion(price, data, first_time) ==
    SingleOutcome(
        cached_calculate_max_affordable(price * CENTS,
                                        SingleFraction(data, first_time),
                                        data.rate, DEFAULT_AMORTIZATION),
        data)

\* The comparison following the checkbox, as the single-region result does.
ComparisonFraction_ByFlag(data, first_time) ==
    IF first_time THEN data.first_time ELSE data.down_payment

\* The fraction the comparison loop passes for a region: data["first_time"].
ComparisonFraction(data, first_time) == data.first_time

\* Rows inserted at the head of the list, not appended.
AppendRow_AtHead(rows, row) == <<row>> \o rows

\* comparison_data.append(row).
AppendRow(rows, row) == Append(rows, row)

\* One row of the comparison: lines 121-128 of app.py, 85-92 of app2.py.
RowOf(data, income_needed, prob) ==
    [Region |-> data.name,
     MinIncome |-> fmt_0f(income_needed),
     CanAfford |-> fmt_0f(MulDiv(data.pop * CENTS, prob, ONE)),
     PctPop |-> fmt_pct_1f(prob)]

RowOutcome(c, data) ==
    IF c.status # "ok"
    THEN [status |-> c.status, row |-> <<>>]
    ELSE [status |-> "ok",
          row |-> RowOf(data, c.annual_income_needed,
                        ONE - cached_lognorm_cdf(c.annual_income_needed))]

ComparisonRow(price, data, first_time) ==
    RowOutcome(
        cached_calculate_max_affordable(price * CENTS,
                                        ComparisonFraction(data, first_time),
                                        data.rate, DEFAULT_AMORTIZATION),
        data)

\* A run of the script from its top to the comparison button, with the widgets
\* at (price, rg, first_time) and the button as `clicked`.  An exception ends
\* the run; otherwise a clicked button enters the loop.
Rerun(price, rg, first_time, clicked) ==
    \E s \in {SingleRegion(price, REGIONS[rg], first_time)} :
        /\ home_price' = price
        /\ region' = rg
        /\ first_time_buyer' = first_time
        /\ button' = clicked
        /\ result' = s.result
        /\ exception' = IF s.status = "ok" THEN "none" ELSE s.status
        /\ pc' = IF s.status # "ok" THEN "error"
                 ELSE IF clicked THEN "loop" ELSE "done"
        /\ idx' = 1
        /\ comparison' = <<>>
        /\ df' = <<>>
        /\ UNCHANGED <<app, REGIONS, call, prev>>

RunEnded == pc \in {"done", "error"}

\* The user edits the purchase price.
ChangePrice ==
    /\ RunEnded
    /\ \E p \in Prices(app) \ {home_price} :
           Rerun(p, region, first_time_buyer, FALSE)

\* The user picks another region.
SelectRegion ==
    /\ RunEnded
    /\ \E rg \in (1..Len(REGIONS)) \ {region} :
           Rerun(home_price, rg, first_time_buyer, FALSE)

\* The user ticks or unticks "First Time Buyer".
ToggleFirstTime ==
    /\ RunEnded
    /\ Rerun(home_price, region, ~first_time_buyer, FALSE)

\* The user clicks "Compare Regions" / "Update Comparison".
ClickCompare ==
    /\ RunEnded
    /\ Rerun(home_price, region, first_time_buyer, TRUE)

\* One iteration of `for region, data in REGIONS.items()`.
CompareStep ==
    /\ pc = "loop"
    /\ idx <= Len(REGIONS)
    /\ \E r \in {ComparisonRow(home_price, REGIONS[idx], first_time_buyer)} :
           IF r.status = "ok"
           THEN /\ comparison' = AppendRow(comparison, r.row)
                /\ idx' = idx + 1
                /\ UNCHANGED <<pc, exception>>
           ELSE /\ pc' = "error"
                /\ exception' = r.status
                /\ UNCHANGED <<comparison, idx>>
    /\ UNCHANGED <<app, REGIONS, home_price, region, first_time_buyer,
                   button, result, df, call, prev>>

\* The loop is over: pd.DataFrame(comparison_data) and st.dataframe(df).
ShowComparison ==
    /\ pc = "loop"
    /\ idx > Len(REGIONS)
    /\ df' = comparison
    /\ pc' = "done"
    /\ UNCHANGED <<app, REGIONS, home_price, region, first_time_buyer,
                   button, exception, result, idx, comparison, call, prev>>

\* The first run of the script `a` over the table `table`.
FirstRun(a, table) ==
    \E s \in {SingleRegion(PriceDefault(a), table[1], FirstTimeDefault(a))} :
        /\ app = a
        /\ REGIONS = table
        /\ home_price = PriceDefault(a)
        /\ region = 1
        /\ first_time_buyer = FirstTimeDefault(a)
        /\ button = FALSE
        /\ result = s.result
        /\ exception = (IF s.status = "ok" THEN "none" ELSE s.status)
        /\ pc = (IF s.status = "ok" THEN "done" ELSE "error")
        /\ idx = 1
        /\ comparison = <<>>
        /\ df = <<>>

Init ==
    /\ \E a \in Apps : FirstRun(a, RegionsOf(a))
    /\ call = NoCall
    /\ prev = NoCall

Next ==
    \/ ChangePrice
    \/ SelectRegion
    \/ ToggleFirstTime
    \/ ClickCompare
    \/ CompareStep
    \/ ShowComparison

Spec == Init /\ [][Next]_vars

\* The script over a table in which one region's rate may have been set to 0.
InitEdited ==
    /\ \E a \in Apps : \E table \in EditedTables(a) : FirstRun(a, table)
    /\ call = NoCall
    /\ prev = NoCall

SpecEdited == InitEdited /\ [][Next]_vars

\* ---------------------------------------------- the functions on their own

\* The widgets stay as the first run of app.py left them.
UiAtRest == FirstRun("app", REGIONS_app)

\* A call of lognorm_cdf(x, sigma, scale) and its value.
CdfCall(x) == [fn |-> "lognorm_cdf", x |-> x, out |-> cached_lognorm_cdf(x)]

InitCdf ==
    /\ UiAtRest
    /\ \E x \in Incomes : call = CdfCall(x)
    /\ prev = NoCall

\* lognorm_cdf is evaluated at another income.
EvalCdf ==
    /\ \E x \in Incomes : call' = CdfCall(x)
    /\ prev' = call
    /\ UNCHANGED ui_vars

SpecCdf == InitCdf /\ [][EvalCdf]_vars

\* A call of calculate_max_affordable and its outcome (price in cents).
CalcCall(price, down_payment_pct, mortgage_rate, amortization) ==
    [fn |-> "calculate_max_affordable",
     price |-> price,
     down_payment_pct |-> down_payment_pct,
     mortgage_rate |-> mortgage_rate,
     amortization |-> amortization,
     out |-> cached_calculate_max_affordable(price, down_payment_pct,
                                             mortgage_rate, amortization)]

InitCalc ==
    /\ UiAtRest
    /\ \E p \in CalcPrices, d \in Fractions, r \in Rates, n \in Amortizations :
           call = CalcCall(p * CENTS, d, r, n)
    /\ prev = NoCall

\* The function is called again with one argument changed, the others held.
VaryPrice ==
    /\ \E p \in CalcPrices :
           /\ p * CENTS # call.price
           /\ call' = CalcCall(p * CENTS, call.down_payment_pct,
                               call.mortgage_rate, call.amortization)
    /\ prev' = call
    /\ UNCHANGED ui_vars

VaryDownPayment ==
    /\ \E d \in Fractions \ {call.down_payment_pct} :
           call' = CalcCall(call.price, d, call.mortgage_rate,
                            call.amortization)
    /\ prev' = call
    /\ UNCHANGED ui_vars

VaryRate ==
    /\ \E r \in Rates \ {call.mortgage_rate} :
           call' = CalcCall(call.price, call.down_payment_pct, r,
                            call.amortization)
    /\ prev' = call
    /\ UNCHANGED ui_vars

VaryAmortization ==
    /\ \E n \in Amortizations \ {call.amortization} :
           call' = CalcCall(call.price, call.down_payment_pct,
                            call.mortgage_rate, n)
    /\ prev' = call
    /\ UNCHANGED ui_vars

NextCalc == VaryPrice \/ VaryDownPayment \/ VaryRate \/ VaryAmortization

SpecCalc == InitCalc /\ [][NextCalc]_vars

\* ------------------------------------------------------------------ claims

\* In the formulas below, button /\ pc = "done" says that the run a click on
\* the comparison button started has ended without an exception; prev and call
\* are the last two calls of the function under study.

\* C1: for every required income, the fraction able to afford,
\* 1 - lognorm_cdf(x, sigma, scale), lies in [0, 1], and so the count of people
\* is neither negative nor above the region's population.
C1_FractionInUnitInterval ==
    result.shown =>
        /\ 0 <= result.prob_affordable
        /\ result.prob_affordable <= ONE
        /\ 0 <= result.people_affordable
        /\ result.people_affordable <= REGIONS[region].pop * CENTS

\* C2: with an annual rate of 0 (price > 0, down-payment fraction < 1,
\* amortization > 0) calculate_max_affordable does not fail and returns the
\* straight-line income (loan / numPayments) * 12 / 0.28.
C2_ZeroRateIsStraightLine ==
    ( /\ call.fn = "calculate_max_affordable"
      /\ call.mortgage_rate = 0
      /\ call.price > 0
      /\ call.down_payment_pct < ONE
      /\ call.amortization > 0 )
    => /\ call.out.status = "ok"
       /\ call.out.annual_income_needed =
              MulDiv(MulDiv(call.price - FMul(call.price, call.down_payment_pct),
                            1, call.amortization * 12) * 12,
                     ONE, HOUSING_RATIO)

\* C3: with a down-payment fraction >= 1 (price > 0, rate > 0, amortization > 0)
\* calculate_max_affordable returns an income needed of exactly 0.
C3_FullCashIsZero ==
    ( /\ call.fn = "calculate_max_affordable"
      /\ call.down_payment_pct >= ONE
      /\ call.price > 0
      /\ call.mortgage_rate > 0
      /\ call.amortization > 0 )
    => /\ call.out.status = "ok"
       /\ call.out.annual_income_needed = 0

\* C4: with an amortization <= 0 calculate_max_affordable ends in an error and
\* never returns an income.  (Any exception is taken for the claim's
\* InvalidInput error here: what refutes the claim is a returned value.)
C4_NonPositiveAmortizationFails ==
    (call.fn = "calculate_max_affordable" /\ call.amortization <= 0) => call.out.status # "ok"

\* C5: lognorm_cdf is non-decreasing: for incomes 0 < x1 <= x2,
\* lognorm_cdf(x1) <= lognorm_cdf(x2), so the probability of an income range
\* [min, max], lognorm_cdf(max) - lognorm_cdf(min), is never negative.
C5_CdfNonDecreasing ==
    (prev.fn = "lognorm_cdf" /\ call.fn = "lognorm_cdf" /\ prev.x <= call.x)
        => prev.out <= call.out

\* C6: lognorm_cdf at x = scale is 0.5 within a tolerance of 1e-3.
C6_CdfAtScaleIsHalf ==
    (call.fn = "lognorm_cdf" /\ call.x = scale)
        => Abs(call.out - ONE \div 2) <= ONE \div 1000

\* C7: when every region's computation succeeds, the table shown has exactly
\* one row per key of REGIONS, in insertion order, none twice and none missing;
\* the rows built so far in the loop are the first regions of the table.
C7_OneRowPerRegionInOrder ==
    /\ (button /\ pc = "done") =>
        /\ Len(df) = Len(REGIONS)
        /\ \A k \in 1..Len(df) : df[k].Region = REGIONS[k].name
        /\ \A j, k \in 1..Len(df) : j # k => df[j].Region # df[k].Region
    /\ df # <<>> => (button /\ pc = "done")
    /\ pc = "loop" =>
           /\ Len(comparison) = idx - 1
           /\ \A k \in 1..Len(comparison) :
                  comparison[k].Region = REGIONS[k].name

C7_Witness ==
    /\ button
    /\ pc = "done"
    /\ Len(df) = Len(REGIONS)
    /\ home_price # PriceDefault(app)
    /\ df[Len(df)].Region = REGIONS[Len(REGIONS)].name

\* C8: when one region's entry fails in the comparison, the comparison still
\* reports a row for every region (an error marker for the failed one): once
\* the run has reached the loop, it ends with one row per region.
C8_FailureDoesNotAbortRows ==
    (button /\ result.shown /\ pc \in {"done", "error"})
        => ( /\ Len(df) = Len(REGIONS)
             /\ \A k \in 1..Len(df) : df[k].Region = REGIONS[k].name )

\* C9: with rate > 0 and amortization > 0 held fixed, the income needed is
\* strictly increasing in the price for a down-payment fraction in [0, 1) held
\* fixed, and non-increasing in the down-payment fraction over [0, 1] for a
\* price held fixed.
C9_MonotoneInPriceAndDownPayment ==
    ( /\ prev.fn = "calculate_max_affordable"
      /\ call.fn = "calculate_max_affordable"
      /\ call.mortgage_rate > 0
      /\ call.amortization > 0
      /\ prev.mortgage_rate = call.mortgage_rate
      /\ prev.amortization = call.amortization )
    => /\ call.out.status = "ok"
       /\ prev.out.status = "ok"
       /\ ( /\ prev.down_payment_pct = call.down_payment_pct
            /\ call.down_payment_pct >= 0
            /\ call.down_payment_pct < ONE
            /\ 0 < prev.price
            /\ prev.price < call.price )
          => prev.out.annual_income_needed < call.out.annual_income_needed
       /\ ( /\ prev.price = call.price
            /\ 0 <= prev.down_payment_pct
            /\ prev.down_payment_pct <= call.down_payment_pct
            /\ call.down_payment_pct <= ONE )
          => prev.out.annual_income_needed >= call.out.annual_income_needed

C9_Witness ==
    /\ prev.fn = "calculate_max_affordable"
    /\ call.fn = "calculate_max_affordable"
    /\ call.mortgage_rate > 0
    /\ call.amortization > 0
    /\ prev.mortgage_rate = call.mortgage_rate
    /\ prev.amortization = call.amortization
    /\ prev.down_payment_pct = call.down_payment_pct
    /\ 0 < call.down_payment_pct
    /\ call.down_payment_pct < ONE
    /\ 0 < prev.price
    /\ prev.price < call.price
    /\ 0 < prev.out.annual_income_needed
    /\ prev.out.annual_income_needed < call.out.annual_income_needed

\* C10: the comparison always uses each region's first_time fraction, the
\* single-region result the fraction the checkbox selects.  So the row of the
\* selected region shows the single-region minimum income when the box is
\* ticked (or the region's two fractions agree), and another income when the
\* box is clear and the two fractions differ (Quebec: 0.03 and 0.05).
C10_ComparisonIgnoresFlag ==
    (button /\ pc = "done") =>
        IF first_time_buyer
               \/ REGIONS[region].first_time = REGIONS[region].down_payment
        THEN df[region].MinIncome = fmt_0f(result.max_income_needed)
        ELSE df[region].MinIncome # fmt_0f(result.max_income_needed)

C10_Witness ==
    /\ button
    /\ pc = "done"
    /\ ~first_time_buyer
    /\ REGIONS[region].name = "Quebec"
    /\ df[region].MinIncome > fmt_0f(result.max_income_needed)

====
